---- MODULE Spec2Model ----
(***************************************************************************)
(* LinearRAG service layer (src/api/services.py) and the request handlers *)
(* that drive it (src/api/app.py).                                         *)
(*                                                                         *)
(* The request handlers are `async def` functions that call the blocking   *)
(* service methods directly, so they run one at a time on the event loop:  *)
(* each handler is one action.  The indexing run is started on a           *)
(* threading.Thread of its own (app.py:336-338) and is modelled statement  *)
(* group by statement group, so that handlers interleave with it.          *)
(***************************************************************************)
EXTENDS Integers, Sequences, FiniteSets, TLC

(* ---------------------------- bounds ----------------------------------- *)

\* Passages one dataset's upload directory holds at most.
MaxPassages == 2
\* Questions in one batch request at most.
MaxBatch == 2
\* Characters of a language-model response at most (SpecParse).
MaxRespLen == 4
\* Successful constructions of one model kind the model follows.
MaxConstruct == 2
\* Observers registered at most.
MaxCallbacks == 2

(* ---------------------------- constants -------------------------------- *)

\* The number of steps process_documents announces.
TotalSteps == 4

None == "None"

\* Dataset names a request may carry.
Names == {"wiki5", "other"}

\* api.config.APIConfig.embedding_model / llm_model: what the handlers pass.
CfgEmbeddingPath == "model/all-mpnet-base-v2"
CfgLlmName == "gpt-4o-mini"
\* A second path / name, as a caller of the service (or a pipeline
\* configuration's llm_model field) may give.
EmbeddingPaths == {CfgEmbeddingPath, "model/other"}
LlmNames == {CfgLlmName, "gpt-other"}

Questions == {"q1", "q2"}
TopKs == {1, 2}

Min(a, b) == IF a < b THEN a ELSE b

(* ---------------------------- state ------------------------------------ *)

VARIABLES
  progress,         \* self.progress: the ProgressInfo object
  rag_model,        \* self._rag_model
  config,           \* self._config
  embedding_model,  \* self._embedding_model
  llm_model,        \* self._llm_model
  current_dataset,  \* self._current_dataset
  fsIndex,          \* working_dir/<name>: the dataset's index directory
  fsUpload,         \* upload_dir/<name>: passages in its .json files (0: no directory)
  constructions,    \* how many times each model kind was constructed successfully
  run,              \* the indexing thread: position and locals of process_documents
  handler,          \* the start_indexing request between thread.start() and its return
  callers,          \* threads inside load_embedding_model / load_llm_model: position and locals
  progress_callbacks, \* self._progress_callbacks
  calls,            \* the observer calls the latest step made, in the order made
  since,            \* history: what last happened to the context ("fresh", "cleared", "deleted_active", "built")
  last              \* the most recent handler call: its arguments, what it called, what it returned

vars == <<progress, rag_model, config, embedding_model, llm_model,
          current_dataset, fsIndex, fsUpload, constructions, run,
          handler, callers, progress_callbacks, calls, since, last>>

svc == <<progress, rag_model, config, embedding_model, llm_model, current_dataset>>

\* ProgressInfo() with its dataclass defaults.
ProgressInfo ==
  [progress |-> 0, current_step |-> "", total_steps |-> 0, completed_steps |-> 0,
   message |-> [text |-> "", count |-> 0], status |-> "idle", start_time |-> FALSE, error |-> None]

\* An absent engine / configuration (a record, so that it compares with one).
NoEngine == [active |-> FALSE, dataset |-> None, indexed |-> FALSE, by |-> None]
NoConfig == [set |-> FALSE, dataset_name |-> None]

\* LinearRAGConfig(dataset_name=..., embedding_model=..., llm_model=..., ...)
\* (the model handles it carries are the cached ones; the algorithm parameters
\* are forwarded to the engine untouched and are left out)
LinearRAGConfig(name) ==
  [set |-> TRUE, dataset_name |-> name]

\* events: what the thread has done so far, in order, each with the progress
\* value in force when it was done.
IdleRun == [pc |-> "idle", dataset_name |-> None, config |-> NoConfig, passages |-> 0,
            exc |-> None, result |-> None, events |-> <<>>]

\* No start_indexing request is between thread.start() and its return.
NoHandler == [pc |-> "idle", dataset_name |-> None, documents_count |-> 0]

\* The threads that call the model cache directly.
Threads == {"t1", "t2"}

\* A thread outside load_embedding_model / load_llm_model.
NoCaller == [pc |-> "idle", kind |-> None, arg |-> None]

\* A model handle: the object a constructor returned (serial tells two
\* constructions from the same path apart).
NoHandle == [path |-> None, serial |-> 0]

NoCall == [op |-> "none"]

\* LinearRAGService.__init__ ; app.py:54-55 creates the two root directories only.
Init ==
  /\ progress = ProgressInfo
  /\ rag_model = NoEngine
  /\ config = NoConfig
  /\ embedding_model = NoHandle
  /\ llm_model = NoHandle
  /\ current_dataset = None
  /\ fsIndex = [d \in Names |-> "absent"]
  /\ fsUpload = [d \in Names |-> FALSE]
  /\ constructions = [embedding |-> 0, llm |-> 0]
  /\ run = IdleRun
  /\ handler = NoHandler
  /\ callers = [t \in Threads |-> NoCaller]
  /\ progress_callbacks = <<>>
  /\ calls = <<>>
  /\ since = "fresh"
  /\ last = NoCall

(* ---------------------------- progress tracker -------------------------- *)

\* _notify_progress: the three fields are overwritten (progress in hundredths).
\* No handler of app.py registers a callback, so the callback list is empty.
NotifyProgress(p, prog, step, msg) ==
  [p EXCEPT !.progress = prog, !.current_step = step, !.message = msg]

\* A message text: what it says and the count it quotes (0: none).
Msg(text, n) == [text |-> text, count |-> n]

\* An observer: whether it raises when it is called.
Observers == {[raises |-> FALSE], [raises |-> TRUE]}

\* An observer call that lets the observer's exception through.
CallObserver_NoCatch(o) == [raised |-> o.raises, propagated |-> o.raises]

\* _notify_progress 79-82: one observer called inside try; what it raises is
\* caught and logged.
CallObserver(o) == [raised |-> o.raises, propagated |-> FALSE]

RECURSIVE NotifyObservers(_, _, _)
\* _notify_progress 78-82: the observers from the i-th on, in list order, each
\* handed the progress object p; the loop ends where an exception leaves it.
NotifyObservers(cbs, p, i) ==
  IF i > Len(cbs) THEN [calls |-> <<>>, propagated |-> FALSE]
  ELSE LET c == CallObserver(cbs[i])
           here == [observer |-> i, state |-> p, raised |-> c.raised]
           rest == NotifyObservers(cbs, p, i + 1)
       IN IF c.propagated
          THEN [calls |-> <<here>>, propagated |-> TRUE]
          ELSE [calls |-> <<here>> \o rest.calls, propagated |-> rest.propagated]

\* _notify_progress(progress, current_step, message) on the progress object p:
\* the object it leaves, the observer calls it made, and whether it raised.
notify_progress(p, prog, step, msg) ==
  LET p1 == NotifyProgress(p, prog, step, msg)
      n == NotifyObservers(progress_callbacks, p1, 1)
  IN [progress |-> p1, calls |-> n.calls, propagated |-> n.propagated]

\* register_progress_callback(callback)
RegisterProgressCallback(o) ==
  /\ Len(progress_callbacks) < MaxCallbacks
  /\ progress_callbacks' = Append(progress_callbacks, o)
  /\ calls' = <<>>
  /\ last' = [op |-> "register_progress_callback"]
  /\ UNCHANGED <<svc, fsIndex, fsUpload, constructions, run, handler, callers, since>>

(* ---------------------------- model cache ------------------------------- *)

\* A cache that is never found filled.
CacheEmpty_Always(h) == TRUE

\* services.py:90 / :97, the memoization test.
CacheEmpty(h) == h = NoHandle

\* load_embedding_model / load_llm_model on cache h of kind k (their bodies
\* differ in the checkpoint only).  `ok`: the constructor returns (else raises).
\* Result: the progress object, the cache, the count, and what the call did.
LoadModel(p, h, cnt, arg, ok, prog, step) ==
  IF CacheEmpty(h)
  THEN LET u == notify_progress(p, prog, step, Msg(step, 0)) IN
       IF ~u.propagated /\ ok /\ cnt < MaxConstruct
       THEN [progress |-> u.progress, cache |-> [path |-> arg, serial |-> cnt + 1], count |-> cnt + 1,
             raised |-> FALSE, constructed |-> TRUE, ret |-> [path |-> arg, serial |-> cnt + 1],
             calls |-> u.calls]
       ELSE [progress |-> u.progress, cache |-> h, count |-> cnt,
             raised |-> TRUE, constructed |-> FALSE, ret |-> NoHandle, calls |-> u.calls]
  ELSE [progress |-> p, cache |-> h, count |-> cnt,
        raised |-> FALSE, constructed |-> FALSE, ret |-> h, calls |-> <<>>]

load_embedding_model(p, h, cnt, path, ok) ==
  LoadModel(p, h, cnt, path, ok, 10, "loading_embedding")

load_llm_model(p, h, cnt, name, ok) ==
  LoadModel(p, h, cnt, name, ok, 20, "loading_llm")

\* Both loads in a row, as initialize_config (118-119) and start_indexing
\* (app.py:307-309) do: the second is not reached when the first raises.
LoadBoth(p, path, okE, name, okL) ==
  LET e == load_embedding_model(p, embedding_model, constructions.embedding, path, okE)
      l == load_llm_model(e.progress, llm_model, constructions.llm, name, okL)
  IN IF e.raised
     THEN [progress |-> e.progress, embedding |-> e.cache, llm |-> llm_model,
           count |-> [embedding |-> e.count, llm |-> constructions.llm], raised |-> TRUE,
           calls |-> e.calls]
     ELSE [progress |-> l.progress, embedding |-> e.cache, llm |-> l.cache,
           count |-> [embedding |-> e.count, llm |-> l.count], raised |-> l.raised,
           calls |-> e.calls \o l.calls]

\* A caller of the service asks for the embedding model.
GetEmbeddingModel(path, ok) ==
  LET r == load_embedding_model(progress, embedding_model, constructions.embedding, path, ok) IN
  /\ calls' = r.calls
  /\ UNCHANGED <<handler, callers, progress_callbacks>>
  /\ since' = since
  /\ progress' = r.progress
  /\ embedding_model' = r.cache
  /\ constructions' = [constructions EXCEPT !.embedding = r.count]
  /\ last' = [op |-> "get_embedding_model", arg |-> path, raised |-> r.raised,
              constructed |-> r.constructed, ret |-> r.ret, cached |-> embedding_model]
  /\ UNCHANGED <<rag_model, config, llm_model, current_dataset, fsIndex, fsUpload, run>>

\* A caller of the service asks for the language model.
GetLanguageModel(name, ok) ==
  LET r == load_llm_model(progress, llm_model, constructions.llm, name, ok) IN
  /\ calls' = r.calls
  /\ UNCHANGED <<handler, callers, progress_callbacks>>
  /\ since' = since
  /\ progress' = r.progress
  /\ llm_model' = r.cache
  /\ constructions' = [constructions EXCEPT !.llm = r.count]
  /\ last' = [op |-> "get_language_model", arg |-> name, raised |-> r.raised,
              constructed |-> r.constructed, ret |-> r.ret, cached |-> llm_model]
  /\ UNCHANGED <<rag_model, config, embedding_model, current_dataset, fsIndex, fsUpload, run>>

\* The two model kinds: the field that caches each, and its checkpoint.
Kinds == {"embedding", "llm"}
Cached(kind) == IF kind = "embedding" THEN embedding_model ELSE llm_model
Checkpoint(kind) ==
  IF kind = "embedding" THEN [progress |-> 10, step |-> "loading_embedding"]
  ELSE [progress |-> 20, step |-> "loading_llm"]

\* Thread t enters load_embedding_model / load_llm_model and evaluates the
\* test of line 90 / 97: on a filled cache it returns the handle at once.
LoadTest(t, kind, arg) ==
  /\ callers[t].pc = "idle"
  /\ IF CacheEmpty(Cached(kind))
     THEN /\ callers' = [callers EXCEPT ![t] = [pc |-> "notify", kind |-> kind, arg |-> arg]]
          /\ last' = last
     ELSE /\ callers' = callers
          /\ last' = [op |-> "load", thread |-> t, kind |-> kind, arg |-> arg,
                      raised |-> FALSE, ret |-> Cached(kind)]
  /\ calls' = <<>>
  /\ UNCHANGED <<svc, fsIndex, fsUpload, constructions, run, handler, progress_callbacks, since>>

\* Line 91 / 98 in thread t.
LoadNotify(t) ==
  LET c == callers[t]
      u == notify_progress(progress, Checkpoint(c.kind).progress, Checkpoint(c.kind).step,
                           Msg(Checkpoint(c.kind).step, 0))
  IN /\ c.pc = "notify"
     /\ progress' = u.progress
     /\ calls' = u.calls
     /\ IF u.propagated
        THEN /\ callers' = [callers EXCEPT ![t] = NoCaller]
             /\ last' = [op |-> "load", thread |-> t, kind |-> c.kind, arg |-> c.arg,
                         raised |-> TRUE, ret |-> NoHandle]
        ELSE /\ callers' = [callers EXCEPT ![t].pc = "construct"]
             /\ last' = last
     /\ UNCHANGED <<rag_model, config, embedding_model, llm_model, current_dataset,
                    fsIndex, fsUpload, constructions, run, handler, progress_callbacks, since>>

\* Line 92-93 / 99-100 in thread t: the model is constructed, stored and
\* returned (ok), or the constructor raises.
LoadConstruct(t, ok) ==
  LET c == callers[t]
      n == constructions[c.kind]
      h == [path |-> c.arg, serial |-> n + 1]
      built == ok /\ n < MaxConstruct
  IN /\ c.pc = "construct"
     /\ callers' = [callers EXCEPT ![t] = NoCaller]
     /\ constructions' = IF built THEN [constructions EXCEPT ![c.kind] = n + 1] ELSE constructions
     /\ embedding_model' = IF built /\ c.kind = "embedding" THEN h ELSE embedding_model
     /\ llm_model' = IF built /\ c.kind = "llm" THEN h ELSE llm_model
     /\ last' = [op |-> "load", thread |-> t, kind |-> c.kind, arg |-> c.arg,
                 raised |-> ~built, ret |-> IF built THEN h ELSE NoHandle]
     /\ calls' = <<>>
     /\ UNCHANGED <<progress, rag_model, config, current_dataset, fsIndex, fsUpload,
                    run, handler, progress_callbacks, since>>

\* A clear() that leaves the engine in place.
ClearService_KeepsEngine ==
  /\ rag_model' = rag_model
  /\ config' = NoConfig
  /\ current_dataset' = None
  /\ progress' = ProgressInfo

\* clear(): the engine, the configuration, the dataset name and the progress
\* object are reset; the two model caches are not touched.
ClearService ==
  /\ rag_model' = NoEngine
  /\ config' = NoConfig
  /\ current_dataset' = None
  /\ progress' = ProgressInfo

\* POST /api/clear
Clear ==
  /\ calls' = <<>>
  /\ UNCHANGED <<handler, callers, progress_callbacks>>
  /\ since' = IF since = "deleted_active" THEN since ELSE "cleared"
  /\ ClearService
  /\ last' = [op |-> "clear"]
  /\ UNCHANGED <<embedding_model, llm_model, fsIndex, fsUpload, constructions, run>>

(* ---------------------------- retrieval engine -------------------------- *)

\* LinearRAG(global_config=cfg) returning: an engine bound to cfg's dataset,
\* holding an index when that dataset's directory holds artifacts.
NewEngine(cfg, who) ==
  [active |-> TRUE, dataset |-> cfg.dataset_name,
   indexed |-> fsIndex[cfg.dataset_name] = "artifacts", by |-> who]

\* The constructor may create the dataset's (still empty) directory.
AfterConstruct(d, mk) ==
  IF mk /\ fsIndex[d] = "absent" THEN [fsIndex EXCEPT ![d] = "empty"] ELSE fsIndex

\* engine.index(passages) returning: the engine holds an index and has
\* written its artifacts under working_dir/<its dataset>.
AfterIndex(eng) == [eng EXCEPT !.indexed = TRUE]

(* ---------------------------- dataset registry -------------------------- *)

\* Any existing directory taken for a dataset.
HasArtifacts_AnyDir(d) == fsIndex[d] # "absent"

\* any(f.endswith('.parquet') for f in os.listdir(path))
HasArtifacts(d) == fsIndex[d] = "artifacts"

\* The guard of get_datasets (341-342).
NoConfigStored == ~config.set

\* get_datasets(): the names under the working root that hold an artifact.
GetDatasets == IF NoConfigStored THEN {} ELSE {d \in Names : HasArtifacts(d)}

\* GET /api/datasets
ListDatasets ==
  /\ calls' = <<>>
  /\ UNCHANGED <<handler, callers, progress_callbacks>>
  /\ since' = since
  /\ last' = [op |-> "list", ret |-> GetDatasets]
  /\ UNCHANGED <<svc, fsIndex, fsUpload, constructions, run>>

\* POST /api/upload: a .json file of passages is stored under upload_dir/<name>.
Upload(name) ==
  /\ calls' = <<>>
  /\ UNCHANGED <<handler, callers, progress_callbacks>>
  /\ since' = since
  /\ fsUpload' = [fsUpload EXCEPT ![name] = TRUE]
  /\ last' = [op |-> "upload", dataset_name |-> name]
  /\ UNCHANGED <<svc, fsIndex, constructions, run>>

\* load_existing_dataset(name) called by POST /api/datasets/{name}/load.
\* okE, okL, okEng: the three constructors return (else raise).
LoadDataset(name, okE, okL, okEng) ==
  LET m == LoadBoth(progress, CfgEmbeddingPath, okE, CfgLlmName, okL)
      cfg == LinearRAGConfig(name)
      base == [op |-> "load", dataset_name |-> name, raised |-> FALSE,
               found |-> HasArtifacts(name)]
  IN /\ since' = IF HasArtifacts(name) /\ ~m.raised /\ okEng THEN "built" ELSE since
     /\ calls' = IF HasArtifacts(name) THEN m.calls ELSE <<>>
     /\ UNCHANGED <<handler, callers, progress_callbacks>>
     /\ IF ~HasArtifacts(name)
        THEN \* 373-378: return False
             /\ last' = base @@ [ret |-> FALSE]
             /\ UNCHANGED <<svc, fsIndex, fsUpload, constructions, run>>
        ELSE /\ embedding_model' = m.embedding
             /\ llm_model' = m.llm
             /\ constructions' = m.count
             /\ UNCHANGED <<fsIndex, fsUpload, run>>
             /\ IF m.raised
                THEN \* initialize_config raised before 121: except, return False
                     /\ progress' = m.progress
                     /\ last' = base @@ [ret |-> FALSE]
                     /\ UNCHANGED <<rag_model, config, current_dataset>>
                ELSE /\ config' = cfg
                     /\ IF okEng
                        THEN /\ rag_model' = NewEngine(cfg, "load")
                             /\ current_dataset' = name
                             /\ progress' = [m.progress EXCEPT !.status = "ready"]
                             /\ last' = base @@ [ret |-> TRUE]
                        ELSE /\ progress' = m.progress
                             /\ last' = base @@ [ret |-> FALSE]
                             /\ UNCHANGED <<rag_model, current_dataset>>

\* DELETE /api/datasets/{name}
DeleteDataset(name) ==
  LET deleted == (IF fsIndex[name] # "absent" THEN {"index"} ELSE {})
                 \cup (IF fsUpload[name] THEN {"upload"} ELSE {})
  IN /\ calls' = <<>>
     /\ UNCHANGED <<handler, callers, progress_callbacks>>
     /\ since' = IF deleted # {} /\ current_dataset = name THEN "deleted_active"
                 ELSE IF deleted = {} \/ since = "deleted_active" THEN since
                 ELSE "cleared"
     /\ fsIndex' = [fsIndex EXCEPT ![name] = "absent"]
     /\ fsUpload' = [fsUpload EXCEPT ![name] = FALSE]
     /\ IF deleted # {}
        THEN ClearService
        ELSE UNCHANGED <<rag_model, config, current_dataset, progress>>
     /\ last' = [op |-> "delete", dataset_name |-> name, deleted |-> deleted,
                 was_active |-> current_dataset = name, status_code |-> IF deleted # {} THEN 200 ELSE 404]
     /\ UNCHANGED <<embedding_model, llm_model, constructions, run>>

(* ---------------------------- system status ----------------------------- *)

\* models.ProcessingStatus: the values of the enumeration.
ProcessingStatusValues == {"idle", "indexing", "querying", "ready", "error"}

\* ProcessingStatus(value): the member with that value; ValueError when there
\* is none.
ProcessingStatus(value) ==
  IF value \in ProcessingStatusValues
  THEN [raised |-> FALSE, value |-> value]
  ELSE [raised |-> TRUE, value |-> None]

\* GET /api/status: get_status() and get_datasets() are read and the status
\* string is converted; an exception leaving the handler is answered with 500.
GetSystemStatus ==
  LET converted == ProcessingStatus(progress.status) IN
  /\ last' = [op |-> "status", held |-> progress.status,
              status_code |-> IF converted.raised THEN 500 ELSE 200,
              status |-> converted.value,
              datasets_count |-> IF converted.raised THEN 0 ELSE Cardinality(GetDatasets)]
  /\ calls' = <<>>
  /\ UNCHANGED <<svc, fsIndex, fsUpload, constructions, run, handler, callers,
                 progress_callbacks, since>>

(* ---------------------------- indexing orchestrator --------------------- *)

\* POST /api/index.  n: the passages the dataset's uploaded files hold;
\* withCfg: the request carries a pipeline configuration, whose llm_model is
\* llmName.  One indexing thread is followed at a time.
StartIndexing(name, n, withCfg, llmName, okE, okL) ==
  /\ since' = since
  /\ run.pc \in {"idle", "done"}
  /\ handler.pc = "idle"
  /\ UNCHANGED <<callers, progress_callbacks>>
  /\ LET m == LoadBoth(progress, CfgEmbeddingPath, okE, llmName, okL)
         started == [pc |-> "responding", dataset_name |-> name, documents_count |-> n]
         calling == [op |-> "start_indexing", dataset_name |-> name, responded |-> FALSE]
     IN
     IF ~fsUpload[name]
     THEN \* 272-279: nothing was uploaded
          /\ last' = [op |-> "start_indexing", dataset_name |-> name, status_code |-> 404]
          /\ calls' = <<>>
          /\ UNCHANGED <<svc, fsIndex, fsUpload, constructions, run, handler>>
     ELSE IF withCfg
     THEN \* 304-322: the models are obtained on the request path
          /\ progress' = m.progress
          /\ calls' = m.calls
          /\ embedding_model' = m.embedding
          /\ llm_model' = m.llm
          /\ constructions' = m.count
          /\ IF m.raised
             THEN /\ last' = [op |-> "start_indexing", dataset_name |-> name, status_code |-> 500]
                  /\ UNCHANGED <<run, handler>>
             ELSE \* 325-338: the thread is started
                  /\ run' = [IdleRun EXCEPT !.pc = "start", !.dataset_name = name,
                                           !.config = LinearRAGConfig(name),
                                           !.passages = n]
                  /\ handler' = started
                  /\ last' = calling
          /\ UNCHANGED <<rag_model, config, current_dataset, fsIndex, fsUpload>>
     ELSE /\ run' = [IdleRun EXCEPT !.pc = "start", !.dataset_name = name,
                                   !.passages = n]
          /\ handler' = started
          /\ last' = calling
          /\ calls' = <<>>
          /\ UNCHANGED <<svc, fsIndex, fsUpload, constructions>>

\* start_indexing 340-345: the acknowledgement is returned.
Acknowledge ==
  /\ last' = [op |-> "start_indexing", dataset_name |-> handler.dataset_name, status_code |-> 200,
              documents_count |-> handler.documents_count]
  /\ handler' = NoHandler
  /\ calls' = <<>>
  /\ UNCHANGED <<svc, fsIndex, fsUpload, constructions, run, callers, progress_callbacks, since>>

\* A handler that joins the thread before it answers.
StartIndexingReturn_AfterJoin == handler.pc = "responding" /\ run.pc = "done" /\ Acknowledge

\* start_indexing after thread.start() (338): nothing stands between the start
\* of the thread and the return statement.
StartIndexingReturn == handler.pc = "responding" /\ Acknowledge

\* What the thread does is noted with the progress value in force.
Event(e, v) == [event |-> e, progress |-> v]

\* The thread after _notify_progress returned u for checkpoint `step`: it goes
\* on at pc `next`, or to the except branch with what _notify_progress raised.
Issued(u, step, next) ==
  [run EXCEPT !.events = Append(@, Event(step, u.progress.progress)),
              !.pc = IF u.propagated THEN "except" ELSE next,
              !.exc = IF u.propagated THEN "ObserverError" ELSE @]

\* process_documents 159-161
RunStart ==
  /\ calls' = <<>>
  /\ UNCHANGED <<handler, callers, progress_callbacks>>
  /\ since' = since
  /\ run.pc = "start"
  /\ progress' = [progress EXCEPT !.status = "running", !.start_time = TRUE,
                                  !.total_steps = TotalSteps]
  /\ run' = [run EXCEPT !.pc = "begun"]
  /\ UNCHANGED <<rag_model, config, embedding_model, llm_model, current_dataset,
                 fsIndex, fsUpload, constructions, last>>

\* process_documents 165-169
RunInit ==
  LET u == notify_progress(progress, 5, "initializing", Msg("initializing", 0)) IN
  /\ since' = since
  /\ run.pc = "begun"
  /\ progress' = u.progress
  /\ calls' = u.calls
  /\ run' = [Issued(u, "initializing", "init")
               EXCEPT !.config = IF u.propagated \/ run.config.set THEN run.config ELSE config]
  /\ current_dataset' = IF u.propagated THEN current_dataset ELSE run.dataset_name
  /\ UNCHANGED <<rag_model, config, embedding_model, llm_model,
                 fsIndex, fsUpload, constructions, handler, callers, progress_callbacks, last>>

\* process_documents 172
RunCreating ==
  LET u == notify_progress(progress, 15, "creating_rag", Msg("creating_rag", 0)) IN
  /\ since' = since
  /\ run.pc = "init"
  /\ progress' = u.progress
  /\ calls' = u.calls
  /\ run' = Issued(u, "creating_rag", "creating")
  /\ UNCHANGED <<rag_model, config, embedding_model, llm_model, current_dataset,
                 fsIndex, fsUpload, constructions, handler, callers, progress_callbacks, last>>

\* process_documents 173.  The constructor reads the configuration's fields,
\* so it raises on None.
RunConstruct(ok, mk) ==
  LET called == [run EXCEPT !.events = Append(@, Event("LinearRAG", progress.progress))] IN
  /\ calls' = <<>>
  /\ UNCHANGED <<handler, callers, progress_callbacks>>
  /\ since' = since
  /\ run.pc = "creating"
  /\ IF run.config.set /\ ok
     THEN /\ rag_model' = NewEngine(run.config, "run")
          /\ fsIndex' = AfterConstruct(run.config.dataset_name, mk)
          /\ run' = [called EXCEPT !.pc = "constructed"]
     ELSE /\ run' = [called EXCEPT !.pc = "except",
                                  !.exc = IF run.config.set THEN "ConstructFailed" ELSE "AttributeError"]
          /\ UNCHANGED <<rag_model, fsIndex>>
  /\ UNCHANGED <<progress, config, embedding_model, llm_model, current_dataset,
                 fsUpload, constructions, last>>

\* An orchestrator that calls index without issuing the indexing update.
RunIndexing_SkipsUpdate ==
  /\ since' = since
  /\ run.pc = "constructed"
  /\ calls' = <<>>
  /\ run' = [run EXCEPT !.pc = "indexing"]
  /\ UNCHANGED <<progress, rag_model, config, embedding_model, llm_model, current_dataset,
                 fsIndex, fsUpload, constructions, handler, callers, progress_callbacks, last>>

\* process_documents 176
RunIndexing ==
  LET u == notify_progress(progress, 25, "indexing", Msg("indexing", run.passages)) IN
  /\ since' = since
  /\ run.pc = "constructed"
  /\ progress' = u.progress
  /\ calls' = u.calls
  /\ run' = Issued(u, "indexing", "indexing")
  /\ UNCHANGED <<rag_model, config, embedding_model, llm_model, current_dataset,
                 fsIndex, fsUpload, constructions, handler, callers, progress_callbacks, last>>

\* process_documents 177: self._rag_model is read again here.
RunIndex(ok) ==
  LET called == [run EXCEPT !.events = Append(@, Event("index", progress.progress))] IN
  /\ calls' = <<>>
  /\ UNCHANGED <<handler, callers, progress_callbacks>>
  /\ since' = since
  /\ run.pc = "indexing"
  /\ IF rag_model.active /\ ok
     THEN /\ rag_model' = AfterIndex(rag_model)
          /\ fsIndex' = [fsIndex EXCEPT ![rag_model.dataset] = "artifacts"]
          /\ run' = [called EXCEPT !.pc = "indexed"]
     ELSE /\ run' = [called EXCEPT !.pc = "except",
                                  !.exc = IF rag_model.active THEN "IndexFailed" ELSE "AttributeError"]
          /\ UNCHANGED <<rag_model, fsIndex>>
  /\ UNCHANGED <<progress, config, embedding_model, llm_model, current_dataset,
                 fsUpload, constructions, last>>

\* process_documents 180-188
RunComplete ==
  LET u == notify_progress(progress, 100, "completed", Msg("completed", run.passages))
      after == Issued(u, "completed", "done")
  IN
  /\ since' = IF u.propagated THEN since ELSE "built"
  /\ run.pc = "indexed"
  /\ progress' = IF u.propagated THEN u.progress ELSE [u.progress EXCEPT !.status = "completed"]
  /\ calls' = u.calls
  /\ run' = IF u.propagated THEN after
            ELSE [IdleRun EXCEPT !.pc = "done", !.result = "success", !.events = after.events]
  /\ UNCHANGED <<rag_model, config, embedding_model, llm_model, current_dataset,
                 fsIndex, fsUpload, constructions, handler, callers, progress_callbacks, last>>

\* An except branch that records the message and leaves the status alone.
Failed_StaysRunning(p, exc) == [p EXCEPT !.error = exc]

\* An except branch that sets the status and drops the message.
Failed_NoMessage(p, exc) == [p EXCEPT !.status = "error"]

\* process_documents 191-192: str(e) is kept in the progress object.
Failed(p, exc) == [p EXCEPT !.status = "error", !.error = exc]

\* process_documents 190-199
RunExcept ==
  LET u == notify_progress(Failed(progress, run.exc), 0, "error", Msg(run.exc, 0)) IN
  /\ since' = since
  /\ run.pc = "except"
  /\ progress' = u.progress
  /\ calls' = u.calls
  /\ run' = [IdleRun EXCEPT !.pc = "done",
                            !.result = IF u.propagated THEN "raised" ELSE "failure",
                            !.events = Append(run.events, Event("error", u.progress.progress))]
  /\ UNCHANGED <<rag_model, config, embedding_model, llm_model, current_dataset,
                 fsIndex, fsUpload, constructions, handler, callers, progress_callbacks, last>>

(* ---------------------------- text --------------------------------------- *)

\* A text is a sequence of symbols: "A" stands for the letters Answer, ":" for
\* a colon and " " for white space, so that the marker "Answer:" is the two
\* symbols A and : in a row, and either of them alone is ordinary text.
Chars == {"A", ":", " "}
Marker == <<"A", ":">>

RECURSIVE SeqsUpTo(_, _)
\* All sequences over S of length at most n.
SeqsUpTo(S, n) ==
  IF n = 0 THEN {<<>>}
  ELSE LET shorter == SeqsUpTo(S, n - 1)
       IN shorter \cup {Append(t, c) : t \in {u \in shorter : Len(u) = n - 1}, c \in S}

\* The places where the marker starts in s.
MarkerAt(s) == {i \in 1..(Len(s) - Len(Marker) + 1) : SubSeq(s, i, i + Len(Marker) - 1) = Marker}

\* The split keeps what precedes the first marker and all that follows it.
FirstOf(I) == CHOOSE i \in I : \A j \in I : i <= j

\* A split at the last occurrence of the marker (str.rsplit).
Split1_Last(s) ==
  IF MarkerAt(s) = {} THEN <<s>>
  ELSE LET i == CHOOSE i \in MarkerAt(s) : \A j \in MarkerAt(s) : i >= j
       IN <<SubSeq(s, 1, i - 1), SubSeq(s, i + Len(Marker), Len(s))>>

\* str.split('Answer:', 1): at most one split, at the first occurrence.
Split1(s) ==
  IF MarkerAt(s) = {} THEN <<s>>
  ELSE LET i == FirstOf(MarkerAt(s))
       IN <<SubSeq(s, 1, i - 1), SubSeq(s, i + Len(Marker), Len(s))>>

\* str.strip(): leading and trailing white space removed.
Strip(s) ==
  LET I == {i \in 1..Len(s) : s[i] # " "}
  IN IF I = {} THEN <<>>
     ELSE SubSeq(s, CHOOSE i \in I : \A j \in I : i <= j, CHOOSE i \in I : \A j \in I : i >= j)

\* An optional text (None, or a str).
Absent == [present |-> FALSE, text |-> <<>>]
Text(t) == [present |-> TRUE, text |-> t]

\* What infer gave: a text, something that is no text, or an exception.
Said(t) == [kind |-> "text", text |-> t]
NonText == [kind |-> "nontext", text |-> <<>>]
InferRaises == [kind |-> "raise", text |-> <<>>]
NoInfer == [kind |-> "none", text |-> <<>>]

\* query 265-271: the two-way parse of the response.  On a response that is no
\* str, split raises, the handler's strip raises again and the exception leaves
\* the parse.
ParseResponse(resp) ==
  IF resp.kind # "text"
  THEN [raised |-> TRUE, thought |-> Absent, answer |-> Absent]
  ELSE LET parts == Split1(resp.text)
       IN IF Len(parts) = 2
          THEN [raised |-> FALSE, thought |-> Text(Strip(parts[1])), answer |-> Text(Strip(parts[2]))]
          ELSE [raised |-> FALSE, thought |-> Text(<<>>), answer |-> Text(Strip(resp.text))]

(* ---------------------------- query pipeline ---------------------------- *)

\* What retrieve gave: two parallel ranked sequences, or an exception.
Ranked(ps, ss) == [kind |-> "ok", sorted_passage |-> ps, sorted_passage_scores |-> ss]
RetrieveRaises == [kind |-> "raise", sorted_passage |-> <<>>, sorted_passage_scores |-> <<>>]
NoRetrieve == [kind |-> "none", sorted_passage |-> <<>>, sorted_passage_scores |-> <<>>]

\* hashlib.md5(passage.encode()).hexdigest()[:8]: a fingerprint of the content.
Md5Prefix(passage) == [md5_of |-> passage]

\* The documents in the reverse of the engine's order.
RetrievedDocuments_Reversed(ps, ss) ==
  LET n == Min(Len(ps), Len(ss)) IN
  [i \in 1..n |->
     [content |-> ps[n + 1 - i], score |-> ss[n + 1 - i], passage_id |-> Md5Prefix(ps[n + 1 - i])]]

\* query 232-239: zip pairs the two sequences up to the shorter one.
RetrievedDocuments(ps, ss) ==
  [i \in 1..Min(Len(ps), Len(ss)) |->
     [content |-> ps[i], score |-> ss[i], passage_id |-> Md5Prefix(ps[i])]]

\* No fail-fast test at all.
EngineMissing_Never(eng) == FALSE

\* query 216: the fail-fast test.
EngineMissing(eng) == ~eng.active

\* query 217-220
IndexNotBuiltResult == [success |-> FALSE, error |-> "IndexNotBuilt"]

\* A failure result that does not carry the question.
QueryFailure_NoQuestion(q, e) == [success |-> FALSE, error |-> e]

\* query 293-297
QueryFailure(q, e) == [success |-> FALSE, question |-> q, error |-> e]

\* query 279-288 (the times are kept as present or absent)
QuerySuccess(q, use_llm, docs, answer, thought) ==
  [success |-> TRUE, question |-> q,
   answer |-> answer,
   thought |-> thought,
   retrieved_documents |-> docs,
   retrieval_time_ms |-> TRUE,
   llm_time_ms |-> use_llm,
   total_time_ms |-> TRUE]

\* query 245: whether the generation branch is taken.
Generates(use_llm) == use_llm

\* query(question, top_k, use_llm) on engine eng and language model llm, the
\* status being st.  retr: what retrieve does when called, resp: what infer
\* does when called.  Gives the result, the status left behind, and what was
\* called (prompt: the passages put into the prompt, 252).
QueryCore(eng, llm, st, q, top_k, use_llm, retr, resp) ==
  LET docs == RetrievedDocuments(retr.sorted_passage, retr.sorted_passage_scores)
      parsed == ParseResponse(resp)
      prompt == SubSeq(retr.sorted_passage, 1, Min(top_k, Len(retr.sorted_passage)))
      failed(e, cr, ci) == [result |-> QueryFailure(q, e), status |-> "error",
                            calledRetrieve |-> cr, calledInfer |-> ci, prompt |-> <<>>]
  IN IF EngineMissing(eng)
     THEN [result |-> IndexNotBuiltResult, status |-> st,
           calledRetrieve |-> FALSE, calledInfer |-> FALSE, prompt |-> <<>>]
     ELSE IF ~eng.active THEN failed("AttributeError", FALSE, FALSE)
     ELSE IF retr.kind # "ok" THEN failed("RetrieveFailed", TRUE, FALSE)
     ELSE IF ~Generates(use_llm)
     THEN \* 241-243: answer and thought stay None
          [result |-> QuerySuccess(q, use_llm, docs, Absent, Absent), status |-> "completed",
           calledRetrieve |-> TRUE, calledInfer |-> FALSE, prompt |-> <<>>]
     ELSE IF llm = NoHandle THEN failed("AttributeError", TRUE, FALSE)
     ELSE IF resp.kind = "raise" THEN failed("InferFailed", TRUE, TRUE)
     ELSE IF parsed.raised THEN failed("AttributeError", TRUE, TRUE)
     ELSE [result |-> QuerySuccess(q, use_llm, docs, parsed.answer, parsed.thought),
           status |-> "completed",
           calledRetrieve |-> TRUE, calledInfer |-> TRUE, prompt |-> prompt]

\* POST /api/query
Query(q, top_k, use_llm, retr, resp) ==
  LET r == QueryCore(rag_model, llm_model, progress.status, q, top_k, use_llm, retr, resp) IN
  /\ calls' = <<>>
  /\ UNCHANGED <<handler, callers, progress_callbacks>>
  /\ since' = since
  /\ progress' = [progress EXCEPT !.status = r.status]
  /\ last' = [op |-> "query", question |-> q, top_k |-> top_k, use_llm |-> use_llm,
              engine |-> rag_model, retrieved |-> retr, response |-> resp,
              result |-> r.result, calledRetrieve |-> r.calledRetrieve,
              calledInfer |-> r.calledInfer, prompt |-> r.prompt]
  /\ UNCHANGED <<rag_model, config, embedding_model, llm_model, current_dataset,
                 fsIndex, fsUpload, constructions, run>>

(* ---------------------------- batch query ------------------------------- *)

RECURSIVE BatchLoop_StopsAtFailure(_, _, _, _, _, _, _, _)
\* A loop that ends at the first question that fails.
BatchLoop_StopsAtFailure(eng, llm, st, Q, top_k, use_llm, outs, results) ==
  LET i == Len(results) + 1 IN
  IF i > Len(Q) \/ (results # <<>> /\ ~results[Len(results)].success)
  THEN [results |-> results, status |-> st]
  ELSE LET r == QueryCore(eng, llm, st, Q[i], top_k, use_llm, outs[i].retr, outs[i].resp)
       IN BatchLoop_StopsAtFailure(eng, llm, r.status, Q, top_k, use_llm, outs, Append(results, r.result))

RECURSIVE BatchLoop(_, _, _, _, _, _, _, _)
\* batch_query 306-309: one query per question, each appended to results.
\* outs[i]: what retrieve and infer do during the i-th query.
BatchLoop(eng, llm, st, Q, top_k, use_llm, outs, results) ==
  LET i == Len(results) + 1 IN
  IF i > Len(Q) THEN [results |-> results, status |-> st]
  ELSE LET r == QueryCore(eng, llm, st, Q[i], top_k, use_llm, outs[i].retr, outs[i].resp)
       IN BatchLoop(eng, llm, r.status, Q, top_k, use_llm, outs, Append(results, r.result))

\* batch_query(questions, top_k, use_llm) called by POST /api/query/batch
BatchQuery(Q, top_k, use_llm, outs) ==
  LET b == BatchLoop(rag_model, llm_model, progress.status, Q, top_k, use_llm, outs, <<>>) IN
  /\ calls' = <<>>
  /\ UNCHANGED <<handler, callers, progress_callbacks>>
  /\ since' = since
  /\ progress' = [progress EXCEPT !.status = b.status]
  /\ last' = [op |-> "batch", questions |-> Q, top_k |-> top_k, use_llm |-> use_llm,
              engine |-> rag_model, outs |-> outs,
              result |-> [success |-> TRUE, results |-> b.results,
                          total_time_ms |-> TRUE, questions_count |-> Len(Q)]]
  /\ UNCHANGED <<rag_model, config, embedding_model, llm_model, current_dataset,
                 fsIndex, fsUpload, constructions, run>>

(* ---------------------------- inputs ------------------------------------ *)

Scores == {1, 2}

\* The ranked results an engine holding n passages may report: up to n distinct
\* passages, with scores that do not increase.
RankedResults(n) ==
  {Ranked(ps, ss) :
     ps \in {p \in SeqsUpTo(1..n, n) : \A i, j \in 1..Len(p) : i # j => p[i] # p[j]},
     ss \in {t \in SeqsUpTo(Scores, n) : \A i \in 1..(Len(t) - 1) : t[i] >= t[i + 1]}}

\* ... the two sequences having the same length.
Retrievals(n) ==
  {r \in RankedResults(n) : Len(r.sorted_passage) = Len(r.sorted_passage_scores)}
    \cup {RetrieveRaises}

\* The first k passages in rank order, for each k, or an exception.
PrefixRetrievals(n) ==
  {Ranked([i \in 1..k |-> i], [i \in 1..k |-> 2]) : k \in 0..n} \cup {RetrieveRaises}

\* Responses of the language model: a text with the marker, something that is
\* no text, an exception.
SampleResponses ==
  {Said(<<":", " ", "A", ":", " ", "A">>), NonText, InferRaises}

AllResponses == {Said(t) : t \in SeqsUpTo(Chars, MaxRespLen)}

\* What retrieve and infer may be asked to do in the state at hand.
RetrFor(S) == IF rag_model.active THEN S ELSE {NoRetrieve}
RespFor(use_llm, retr, S) ==
  IF rag_model.active /\ use_llm /\ retr.kind = "ok" THEN S ELSE {NoInfer}

\* What retrieve and infer do during one question of a batch.
BatchOutcomes ==
  {[retr |-> RetrieveRaises, resp |-> NoInfer],
   [retr |-> Ranked(<<1>>, <<2>>), resp |-> Said(<<"A", ":", "A">>)]}

\* The question sequences of a batch request.
Batches == SeqsUpTo(Questions, MaxBatch)

(* ---------------------------- the service ------------------------------- *)

\* No indexing thread is between its start and its end.
Quiet == run.pc \in {"idle", "done"} /\ handler.pc = "idle"

RunStep ==
  \/ RunStart
  \/ RunInit
  \/ RunCreating
  \/ \E ok, mk \in BOOLEAN : RunConstruct(ok, mk)
  \/ RunIndexing
  \/ \E ok \in BOOLEAN : RunIndex(ok)
  \/ RunComplete
  \/ RunExcept

\* The service used by one operator at a time: a request is made when no
\* indexing run is in progress.
Next ==
  \/ Quiet /\ \E name \in Names : Upload(name)
  \/ \E name \in Names, withCfg, okE, okL \in BOOLEAN :
       StartIndexing(name, MaxPassages, withCfg, CfgLlmName, okE, okL)
  \/ StartIndexingReturn
  \/ RunStep
  \/ Quiet /\ \E name \in Names, okE, okL, okEng \in BOOLEAN : LoadDataset(name, okE, okL, okEng)
  \/ Quiet /\ \E name \in Names : DeleteDataset(name)
  \/ Quiet /\ ListDatasets
  \/ Quiet /\ Clear
  \/ Quiet /\ \E use_llm \in BOOLEAN :
       \E retr \in RetrFor({RetrieveRaises, Ranked(<<1, 2>>, <<2, 1>>)}) :
         \E resp \in RespFor(use_llm, retr, {Said(<<"A", ":", "A">>), InferRaises}) :
           Query("q1", 1, use_llm, retr, resp)

Spec == Init /\ [][Next]_vars

\* The indexing thread is scheduled: it is not left forever before a statement
\* it can execute.  The constructor and index return or raise (RunConstruct
\* and RunIndex are enabled for either outcome).
SpecFair == Spec /\ WF_vars(RunStep)

(* ---------------------------- the query pipeline ------------------------ *)

\* One dataset is uploaded, indexed and loaded without a failure, the service
\* may be cleared, and questions are asked at any point, with every outcome of
\* retrieve and infer.
NextQuery ==
  \/ Quiet /\ Upload("wiki5")
  \/ StartIndexing("wiki5", MaxPassages, TRUE, CfgLlmName, TRUE, TRUE)
  \/ StartIndexingReturn
  \/ RunStart
  \/ RunInit
  \/ RunCreating
  \/ RunConstruct(TRUE, TRUE)
  \/ RunIndexing
  \/ RunIndex(TRUE)
  \/ RunComplete
  \/ Quiet /\ LoadDataset("wiki5", TRUE, TRUE, TRUE)
  \/ Quiet /\ Clear
  \/ Quiet /\ \E q \in Questions, top_k \in TopKs, use_llm \in BOOLEAN :
       \E retr \in RetrFor(IF use_llm THEN PrefixRetrievals(MaxPassages)
                                        ELSE Retrievals(MaxPassages)) :
         \E resp \in RespFor(use_llm, retr, SampleResponses) :
           Query(q, top_k, use_llm, retr, resp)
  \/ Quiet /\ \E Q \in Batches, use_llm \in BOOLEAN :
       \E outs \in [1..Len(Q) -> BatchOutcomes] :
         BatchQuery(Q, 1, use_llm, outs)

SpecQuery == Init /\ [][NextQuery]_vars

\* The same, asking one question with generation, for every response text.
NextParse ==
  \/ Quiet /\ Upload("wiki5")
  \/ StartIndexing("wiki5", 1, TRUE, CfgLlmName, TRUE, TRUE)
  \/ StartIndexingReturn
  \/ RunStart
  \/ RunInit
  \/ RunCreating
  \/ RunConstruct(TRUE, TRUE)
  \/ RunIndexing
  \/ RunIndex(TRUE)
  \/ RunComplete
  \/ Quiet /\ \E resp \in RespFor(TRUE, Ranked(<<1>>, <<2>>), AllResponses) :
       Query("q1", 1, TRUE, IF rag_model.active THEN Ranked(<<1>>, <<2>>) ELSE NoRetrieve, resp)

SpecParse == Init /\ [][NextParse]_vars

(* ---------------------------- the model cache --------------------------- *)

\* The two cache operations called directly, with any path or name.
NextCache ==
  \/ \E path \in EmbeddingPaths, ok \in BOOLEAN : GetEmbeddingModel(path, ok)
  \/ \E name \in LlmNames, ok \in BOOLEAN : GetLanguageModel(name, ok)
  \/ Clear

SpecCache == Init /\ [][NextCache]_vars

(* ---------------------------- the model cache under threads ------------- *)

\* The service object is shared by the threads of the process: two of them
\* call the two loaders, each call going through its statements one by one,
\* and the service may be cleared in between.
NextThreads ==
  \/ \E t \in Threads, kind \in Kinds :
       LoadTest(t, kind, IF kind = "embedding" THEN CfgEmbeddingPath ELSE CfgLlmName)
  \/ \E t \in Threads : LoadNotify(t)
  \/ \E t \in Threads, ok \in BOOLEAN : LoadConstruct(t, ok)
  \/ Clear

SpecThreads == Init /\ [][NextThreads]_vars

(* ---------------------------- the progress tracker ---------------------- *)

\* Observers are registered at any time, raising ones among them, while one
\* dataset is indexed, the constructor and index returning or raising.
NextNotify ==
  \/ \E o \in Observers : RegisterProgressCallback(o)
  \/ Quiet /\ Upload("wiki5")
  \/ StartIndexing("wiki5", 1, TRUE, CfgLlmName, TRUE, TRUE)
  \/ StartIndexingReturn
  \/ RunStart
  \/ RunInit
  \/ RunCreating
  \/ \E ok \in BOOLEAN : RunConstruct(ok, TRUE)
  \/ RunIndexing
  \/ \E ok \in BOOLEAN : RunIndex(ok)
  \/ RunComplete
  \/ RunExcept

SpecNotify == Init /\ [][NextNotify]_vars

(* ---------------------------- requests during a run --------------------- *)

\* The handlers run on the event loop while the indexing thread runs: requests
\* for one dataset arrive at any point of the run, between any two of its
\* statements.
NextRace ==
  \/ Upload("wiki5")
  \/ StartIndexing("wiki5", 1, TRUE, CfgLlmName, TRUE, TRUE)
  \/ StartIndexingReturn
  \/ RunStart
  \/ RunInit
  \/ RunCreating
  \/ RunConstruct(TRUE, TRUE)
  \/ RunIndexing
  \/ RunIndex(TRUE)
  \/ RunComplete
  \/ RunExcept
  \/ Clear
  \/ DeleteDataset("wiki5")
  \/ LoadDataset("wiki5", TRUE, TRUE, TRUE)
  \/ \E retr \in RetrFor({Ranked(<<1>>, <<2>>)}) : Query("q1", 1, FALSE, retr, NoInfer)
  \/ GetSystemStatus

SpecRace == Init /\ [][NextRace]_vars

(* ======================================================================= *)
(* Properties                                                              *)
(* ======================================================================= *)

\* C1: a query made while no retrieval engine is active returns the
\* IndexNotBuilt failure result, and neither retrieve nor infer is called.
C1_NoEngineFailsFast ==
  (last.op = "query" /\ ~last.engine.active) =>
    /\ last.result = [success |-> FALSE, error |-> "IndexNotBuilt"]
    /\ ~last.calledRetrieve
    /\ ~last.calledInfer

\* C1 happens: a query is refused after the context was cleared by a delete.
C1_Witness ==
  /\ last.op = "query"
  /\ ~last.engine.active
  /\ since = "deleted_active"
  /\ last.result.error = "IndexNotBuilt"

\* C2: when retrieve or infer raises during a query, the query returns a
\* failure result carrying the question and the exception's message, and the
\* status is error.
C2_ExceptionBecomesFailure ==
  (/\ last.op = "query"
   /\ last.engine.active
   /\ \/ last.calledRetrieve /\ last.retrieved.kind = "raise"
      \/ last.calledInfer /\ last.response.kind = "raise") =>
    /\ last.result.success = FALSE
    /\ "question" \in DOMAIN last.result
    /\ last.result.question = last.question
    /\ last.result.error = (IF last.retrieved.kind = "raise" THEN "RetrieveFailed" ELSE "InferFailed")
    /\ progress.status = "error"

\* C2 happens: infer raised after a retrieval that had succeeded.
C2_Witness ==
  /\ last.op = "query"
  /\ last.calledRetrieve
  /\ last.calledInfer
  /\ last.response.kind = "raise"
  /\ ~last.result.success

\* C3: a batch returns one result per question, in order, the i-th carrying
\* the i-th question.
C3_BatchEchoesQuestions ==
  last.op = "batch" =>
    /\ Len(last.result.results) = Len(last.questions)
    /\ \A i \in 1..Len(last.questions) :
         /\ "question" \in DOMAIN last.result.results[i]
         /\ last.result.results[i].question = last.questions[i]

IsTrimOf(r, s) ==
  /\ \E a, b \in 0..Len(s) :
       /\ a + Len(r) + b = Len(s)
       /\ \A i \in 1..Len(s) :
            IF i <= a \/ i > a + Len(r) THEN s[i] = " " ELSE s[i] = r[i - a]
  /\ r # <<>> => r[1] # " " /\ r[Len(r)] # " "

\* The marker occurs in s.
HasMarker(s) == \E i \in 1..(Len(s) - 1) : s[i] = "A" /\ s[i + 1] = ":"

\* C5: a response text with the marker gives the trimmed text before the
\* first marker as thought and the trimmed text after it as answer; one
\* without the marker gives the trimmed text as answer and an empty thought;
\* the query succeeds either way.
C5_ParseAtFirstMarker ==
  (last.op = "query" /\ last.calledInfer /\ last.response.kind = "text") =>
    LET t == last.response.text
        th == last.result.thought
        an == last.result.answer
    IN /\ last.result.success
       /\ th.present /\ an.present
       /\ IF HasMarker(t)
          THEN \E n \in 0..(Len(t) - 2) :
                 /\ t[n + 1] = "A" /\ t[n + 2] = ":"
                 /\ ~HasMarker(SubSeq(t, 1, n + 1))
                 /\ IsTrimOf(th.text, SubSeq(t, 1, n))
                 /\ IsTrimOf(an.text, SubSeq(t, n + 3, Len(t)))
          ELSE th.text = <<>> /\ IsTrimOf(an.text, t)

\* C5 happens: the response holds the marker twice.
C5_Witness ==
  /\ last.op = "query"
  /\ last.calledInfer
  /\ last.response = Said(<<"A", ":", "A", ":">>)
  /\ last.result.success

\* C6: after an indexing run into "wiki5" and a load of "wiki5", a query with
\* top_k = 1 and no generation returns exactly one document, whether the
\* engine reports one passage or two.
C6_TopOneGivesOneDocument ==
  (/\ last.op = "query"
   /\ last.engine.by = "load" /\ last.engine.dataset = "wiki5"
   /\ last.top_k = 1 /\ ~last.use_llm
   /\ last.retrieved.kind = "ok"
   /\ Len(last.retrieved.sorted_passage) \in {1, 2}) =>
    /\ last.result.success
    /\ Len(last.result.retrieved_documents) = 1

\* C7: when an indexing run finishes as completed, the dataset it was started
\* for is among the listed datasets.
C7_CompletedRunIsListed ==
  [][(run.pc = "indexed" /\ run'.pc = "done") => run.dataset_name \in GetDatasets']_vars

\* C8: a load of a dataset whose directory is absent or holds no artifact
\* returns failure and leaves engine, configuration, dataset name and status
\* as they were; a load that returns success leaves an engine bound to the
\* name active, the name as the active dataset and the status ready; a load
\* never raises.
C8_LoadOutcome ==
  [][\A name \in Names :
       (\E okE, okL, okEng \in BOOLEAN : LoadDataset(name, okE, okL, okEng)) =>
         /\ last'.op = "load" /\ ~last'.raised
         /\ fsIndex[name] \in {"absent", "empty"} =>
              /\ last'.ret = FALSE
              /\ rag_model' = rag_model /\ config' = config
              /\ current_dataset' = current_dataset
              /\ progress'.status = progress.status
         /\ last'.ret =>
              /\ rag_model'.active /\ rag_model'.dataset = name
              /\ current_dataset' = name
              /\ progress'.status = "ready"]_vars

\* C8 happens: a load of a directory without artifacts failed while the engine
\* of another dataset was active.
C8_Witness ==
  /\ last.op = "load"
  /\ ~last.ret
  /\ fsIndex[last.dataset_name] = "empty"
  /\ rag_model.active
  /\ rag_model.dataset # last.dataset_name

\* C9: once the active dataset was deleted, the context is empty, and every
\* query fails with IndexNotBuilt until an indexing run or a load has
\* succeeded.
C9_DeletedUntilRebuilt ==
  /\ (last.op = "delete" /\ last.was_active /\ last.deleted # {}) =>
       rag_model = NoEngine /\ config = NoConfig /\ current_dataset = None
  /\ (last.op = "query" /\ since = "deleted_active") =>
       last.result = [success |-> FALSE, error |-> "IndexNotBuilt"]

\* C10: once a model is memoized, a later call for that kind returns the
\* memoized handle, whatever path or name it is given, and constructs nothing;
\* each kind has been constructed once.
C10_Memoized ==
  /\ (last.op \in {"get_embedding_model", "get_language_model"} /\ last.cached # NoHandle) =>
       /\ ~last.raised
       /\ last.ret = last.cached
       /\ ~last.constructed
  /\ last.op = "get_embedding_model" /\ last.cached # NoHandle =>
       embedding_model = last.cached /\ constructions.embedding = 1
  /\ last.op = "get_language_model" /\ last.cached # NoHandle =>
       llm_model = last.cached /\ constructions.llm = 1

\* C10 happens: a second call with another path got the first call's handle.
C10_Witness ==
  /\ last.op = "get_embedding_model"
  /\ last.cached # NoHandle
  /\ last.arg # last.cached.path
  /\ last.ret = last.cached

\* C11: in every execution, threads calling the loaders at the same time and
\* clear() called in between included, each model kind is constructed at most
\* once.
C11_ConstructedAtMostOnce ==
  /\ constructions.embedding <= 1
  /\ constructions.llm <= 1

\* How many times the indexing thread did e.
Times(events, e) == Cardinality({i \in DOMAIN events : events[i].event = e})

\* C12: when the engine's constructor or its index call raised in an indexing
\* run, the run ends with a failure result and raises nothing, the status is
\* error, the error field holds the exception's message, and index is called
\* at most once in the run.
C12_FailedRunEnds ==
  [][(run.pc = "except" /\ run' # run
        /\ run.exc \in {"ConstructFailed", "AttributeError", "IndexFailed"}) =>
       /\ run'.pc = "done"
       /\ run'.result = "failure"
       /\ progress'.status = "error"
       /\ progress'.error = run.exc
       /\ Times(run'.events, "index") <= 1
       /\ Times(run'.events, "LinearRAG") = 1]_vars

\* C12 happens: a run has ended after its index call raised.
C12_Witness ==
  /\ run.pc = "done"
  /\ run.result = "failure"
  /\ Times(run.events, "index") = 1
  /\ progress.status = "error"
  /\ progress.error = "IndexFailed"

\* C13: once start_indexing has started the thread, its acknowledgement can be
\* returned wherever the indexing run stands; it carries the document count
\* and waits for no step of the run.
C13_AcknowledgeWithoutWaiting ==
  handler.pc = "responding" =>
    /\ ENABLED StartIndexingReturn
    /\ handler.documents_count = MaxPassages
    /\ run.pc # "idle"

\* C13 happens: the acknowledgement is about to be returned while the run is
\* between its indexing checkpoint and the return of index.
C13_Witness ==
  /\ handler.pc = "responding"
  /\ run.pc = "indexing"
  /\ progress.current_step = "indexing"
  /\ ENABLED StartIndexingReturn

\* C14 (as stated): after clear() every field of the context is empty, the
\* two cached model handles included, and the progress object is fresh.
C14_ClearEmptiesAll ==
  last.op = "clear" =>
    /\ rag_model = NoEngine /\ config = NoConfig /\ current_dataset = None
    /\ embedding_model = NoHandle /\ llm_model = NoHandle
    /\ progress = ProgressInfo

\* C14 (amended): clear() leaves no engine, no configuration, no dataset name
\* and a fresh progress object (status idle, progress 0, no error, no start
\* time); the two cached model handles are left as they were.
C14_ClearKeepsModels ==
  [][Clear =>
       /\ rag_model' = NoEngine /\ config' = NoConfig /\ current_dataset' = None
       /\ progress'.status = "idle" /\ progress'.progress = 0
       /\ progress'.error = None /\ progress'.start_time = FALSE
       /\ progress' = ProgressInfo
       /\ embedding_model' = embedding_model /\ llm_model' = llm_model]_vars

\* C14 happens: the service was cleared while an engine was active and both
\* models were cached.
C14_Witness ==
  /\ last.op = "clear"
  /\ since = "cleared"
  /\ embedding_model # NoHandle /\ llm_model # NoHandle
  /\ rag_model = NoEngine
  /\ \E d \in Names : fsIndex[d] = "artifacts"

\* C15: a batch queries every question once, in input order and one after the
\* other: the i-th result is the outcome of the i-th question whether earlier
\* questions failed or not, and the status left behind is the one the last
\* question's query set.
C15_BatchInOrder ==
  [][\A Q \in Batches, use_llm \in BOOLEAN :
       \A outs \in [1..Len(Q) -> BatchOutcomes] :
         BatchQuery(Q, 1, use_llm, outs) =>
           LET rs == last'.result.results
               ok(i) == outs[i].retr.kind = "ok"
           IN /\ Len(rs) = Len(Q)
              /\ last'.result.questions_count = Len(Q)
              /\ \A i \in 1..Len(Q) :
                   IF rag_model.active
                   THEN /\ rs[i].success = ok(i)
                        /\ "question" \in DOMAIN rs[i]
                        /\ rs[i].question = Q[i]
                   ELSE rs[i] = [success |-> FALSE, error |-> "IndexNotBuilt"]
              /\ (rag_model.active /\ Q # <<>>) =>
                   progress'.status = (IF ok(Len(Q)) THEN "completed" ELSE "error")]_vars

\* C15 happens: the first of two questions failed and the second succeeded.
C15_Witness ==
  /\ last.op = "batch"
  /\ last.questions = <<"q2", "q1">>
  /\ Len(last.result.results) = 2
  /\ ~last.result.results[1].success
  /\ last.result.results[2].success
  /\ last.result.results[2].question = "q1"

\* C16: when retrieve succeeded and infer then raised or gave something that is
\* no text, the result still carries the retrieved documents.
C16_DegradesToDocuments ==
  (/\ last.op = "query"
   /\ last.calledRetrieve /\ last.retrieved.kind = "ok"
   /\ last.calledInfer /\ last.response.kind \in {"raise", "nontext"}) =>
    /\ "retrieved_documents" \in DOMAIN last.result
    /\ Len(last.result.retrieved_documents) = Len(last.retrieved.sorted_passage)

\* The update the indexing thread issues at each position, and where the
\* thread stands after it.
UpdateAt(pc) ==
  CASE pc = "begun" -> [progress |-> 5, step |-> "initializing", next |-> "init"]
    [] pc = "init" -> [progress |-> 15, step |-> "creating_rag", next |-> "creating"]
    [] pc = "constructed" -> [progress |-> 25, step |-> "indexing", next |-> "indexing"]
    [] pc = "indexed" -> [progress |-> 100, step |-> "completed", next |-> "done"]
    [] pc = "except" -> [progress |-> 0, step |-> "error", next |-> "done"]

\* C17: an update writes progress, step and message and then calls every
\* registered observer, in registration order, with the state just written; an
\* observer that raises makes neither the update raise nor the later observers
\* go uncalled, and the indexing run goes on to its next step.
C17_EveryObserverCalled ==
  [][(run' # run /\ run.pc \in {"begun", "init", "constructed", "indexed", "except"}) =>
       LET e == UpdateAt(run.pc) IN
       /\ progress'.progress = e.progress
       /\ progress'.current_step = e.step
       /\ Len(calls') = Len(progress_callbacks)
       /\ \A i \in 1..Len(calls') :
            /\ calls'[i].observer = i
            /\ calls'[i].raised = progress_callbacks[i].raises
            /\ calls'[i].state.progress = progress'.progress
            /\ calls'[i].state.current_step = progress'.current_step
            /\ calls'[i].state.message = progress'.message
       /\ run'.pc = e.next
       /\ run'.exc # "ObserverError"
       /\ run'.result # "raised"]_vars

\* C17 happens: the first of two observers raised at the indexing checkpoint,
\* the second was called all the same and the run stands before index.
C17_Witness ==
  /\ run.pc = "indexing"
  /\ Len(progress_callbacks) = 2
  /\ progress_callbacks[1].raises
  /\ Len(calls) = 2
  /\ calls[1].raised
  /\ calls[2].observer = 2
  /\ calls[2].state.current_step = "indexing"

\* C18: a run that succeeded issued exactly the updates initializing (0.05),
\* creating_rag (0.15), indexing (0.25) and completed (1.0), in that order; it
\* constructed the engine after the 0.15 update, called index after the 0.25
\* update, and issued 1.0 after index had returned.
C18_CheckpointOrder ==
  (run.pc = "done" /\ run.result = "success") =>
    run.events = << Event("initializing", 5), Event("creating_rag", 15),
                    Event("LinearRAG", 15), Event("indexing", 25),
                    Event("index", 25), Event("completed", 100) >>

\* C18 happens: a run has succeeded, its engine indexed and the tracker at 1.0.
C18_Witness ==
  /\ run.pc = "done"
  /\ run.result = "success"
  /\ progress.status = "completed"
  /\ progress.progress = 100
  /\ Times(run.events, "index") = 1

\* C19: within one indexing run, once its first update is issued, the progress
\* value never decreases; neither the failure of the run nor a model load
\* during it sets it back.
C19_ProgressMonotone ==
  [][(run.pc \notin {"idle", "start", "begun", "done"} /\ run'.pc # "start") =>
       progress'.progress >= progress.progress]_vars

\* C20: the tracker's error field is populated exactly when its status is
\* error.
C20_ErrorIffStatusError ==
  (progress.status = "error") <=> (progress.error # None)

\* C21: in every reachable state the tracker's status is one of idle, running,
\* querying, completed, error.
C21_StatusInEnum ==
  progress.status \in {"idle", "running", "querying", "completed", "error"}

\* C22: deleting a dataset other than the active one leaves the active engine,
\* the configuration, the dataset name and the progress object unchanged.
C22_DeleteOtherKeepsContext ==
  [][\A name \in Names :
       (DeleteDataset(name) /\ rag_model.active /\ current_dataset # name
          /\ rag_model.dataset # name)
       => UNCHANGED <<rag_model, config, current_dataset, progress>>]_vars

\* C23: a query issued when no indexing run and no load has ever succeeded
\* fails with IndexNotBuilt and does not call retrieve, also after a run whose
\* engine was constructed and whose index call raised.
C23_NeverBuiltFailsFast ==
  (last.op = "query" /\ since = "fresh") =>
    /\ last.result = IndexNotBuiltResult
    /\ ~last.calledRetrieve

\* C24: at rest (no operation in progress) either no engine is active or the
\* active engine is bound to the dataset named by the active dataset name,
\* also after an indexing run or a load that failed part-way.
C24_EngineAgreesWithName ==
  (Quiet /\ rag_model.active) => rag_model.dataset = current_dataset

\* C25: under every interleaving of an indexing run with clear, delete, load
\* or query, whenever the tracker reports status completed at step completed
\* with progress 1.0, an engine is active and it is bound to the dataset named
\* by the active dataset name.
C25_CompletedMeansEngine ==
  (progress.status = "completed" /\ progress.current_step = "completed"
     /\ progress.progress = 100)
  => (rag_model.active /\ rag_model.dataset = current_dataset)

\* C26: the status string the service holds is always a member of the
\* transport layer's ProcessingStatus enumeration, so the system-status
\* operation never fails on converting it.
C26_StatusConverts ==
  /\ progress.status \in ProcessingStatusValues
  /\ last.op = "status" => last.status_code = 200

\* C27: every indexing run that was started terminates, and at the moment it
\* terminates the status is completed, with progress 1.0, or error; the status
\* is not left at running when the thread has ended.
C27_RunTerminates ==
  /\ (run.pc = "start") ~> (run.pc = "done" /\ progress.status \in {"completed", "error"})
  /\ [][(run.pc # "done" /\ run'.pc = "done") =>
          \/ progress'.status = "completed" /\ progress'.progress = 100
                /\ run'.result = "success"
          \/ progress'.status = "error" /\ run'.result = "failure"]_vars

\* C27 happens: a started run has ended in each of the two ways, here with the
\* acknowledgement already returned and the status error.
C27_Witness ==
  /\ run.pc = "done"
  /\ handler.pc = "idle"
  /\ last.op = "start_indexing"
  /\ progress.status = "error"
  /\ progress.current_step = "error"

====
